---- MODULE Spec2Model ----
(***************************************************************************)
(* higlass-manage update_viewconfs: one run of the command                 *)
(* src/higlass_manage/update_viewconfs.py, from the parsed command line to *)
(* the final report or the error that ends it.                             *)
(*                                                                         *)
(* Strings are sequences of one-character strings, so that substring       *)
(* search, replacement, the f-string formatting of the endpoint and the    *)
(* quoting of the SQL text are computed character by character.  Paths     *)
(* are sequences of components.  A database file is the sequence of the    *)
(* viewconf texts of its tilesets_viewconf rows.                           *)
(***************************************************************************)
EXTENDS Integers, Sequences, FiniteSets, TLC

(* ------------------------------------------------------------------ *)
(* Bounds                                                              *)
(* ------------------------------------------------------------------ *)

\* the largest number of rows of tilesets_viewconf in the database
MaxRecords == 2

(* ------------------------------------------------------------------ *)
(* Values                                                              *)
(* ------------------------------------------------------------------ *)

\* Python's None for an option that was not given (no text is this sequence)
None == <<"<None>">>

\* str(None), as an f-string formats it
NoneText == <<"N", "o", "n", "e">>

QUOTE == "'"

\* the default of --old-port and --new-port
DefaultPort == <<"8", "0">>

\* common.SQLITEDB
SQLITEDB == <<"db.sqlite3">>

\* the modules update_viewconfs.py imports (docker is not among them)
ModuleImports == {"sys", "click", "op", "sqlite3", "shutil", "partial", "sp"}

\* --old-hg-name
HgNames == {None, <<"hg">>}

\* --old-site-url
OldSiteUrls ==
  { None,
    <<"h">>,
    <<"h", ":", "8", "0">>,
    <<>>,
    <<"'">>,
    <<"'", "'">> }

\* --old-port and --new-port
Ports == {None, <<"8", "0">>, <<"8", "1">>}

\* --old-data-dir
OldDataDirs == {None, <<"e">>}

\* --new-site-url
NewSiteUrls == {<<"h">>, <<"g">>}

\* what the registry holds for a running deployment
Registry ==
  { [site_url |-> <<"h">>, port |-> <<"8", "1">>, data_dir |-> <<"r">>],
    [site_url |-> <<"g">>, port |-> <<"8", "0">>, data_dir |-> <<"r">>] }

\* the viewconf texts a row may hold
Texts ==
  { <<"h", "x">>,
    <<"g">>,
    <<"h", ":", "8", "0", "h">>,
    <<"'", "'", "x">> }

RECURSIVE SeqsUpTo(_, _)
SeqsUpTo(S, n) ==
  IF n = 0 THEN {<<>>}
  ELSE LET shorter == SeqsUpTo(S, n - 1)
       IN  shorter \cup {Append(s, x) : s \in shorter, x \in S}

\* the contents the database may have when the run starts
Databases == SeqsUpTo(Texts, MaxRecords)

(* ------------------------------------------------------------------ *)
(* Files                                                               *)
(* ------------------------------------------------------------------ *)

\* os.path.join(dir, name)
op_join(dir, name) == dir \o <<"/">> \o name

origin_db_path_of(dir) == op_join(dir, SQLITEDB)

update_db_path_of(dir) == op_join(dir, SQLITEDB \o <<".updated">>)

DataDirs == {<<"e">>, <<"r">>}

Paths == {origin_db_path_of(d) : d \in DataDirs}
           \cup {update_db_path_of(d) : d \in DataDirs}

NoFile == [exists |-> FALSE, rows |-> <<>>]

File(rows) == [exists |-> TRUE, rows |-> rows]

\* a snapshot an earlier run left behind
StaleSnapshot == File(<<<<"g", "x">>>>)

(* ------------------------------------------------------------------ *)
(* Text operations                                                     *)
(* ------------------------------------------------------------------ *)

\* f"{v}"
Str(v) == IF v = None THEN NoneText ELSE v

\* pat occurs in s at position i
OccursAt(s, pat, i) ==
  /\ i >= 1
  /\ i + Len(pat) - 1 <= Len(s)
  /\ SubSeq(s, i, i + Len(pat) - 1) = pat

\* pat is a literal substring of s
Contains(s, pat) == \E i \in 1..(Len(s) + 1) : OccursAt(s, pat, i)

EndsWith(s, suffix) ==
  /\ Len(suffix) <= Len(s)
  /\ SubSeq(s, Len(s) - Len(suffix) + 1, Len(s)) = suffix

(* ------------------------------------------------------------------ *)
(* Endpoints                                                           *)
(* ------------------------------------------------------------------ *)

\* a click option with a default: the value given, or the default
ClickOption(given, default) == IF given = None THEN default ELSE given

\* the port is appended whatever it is
EndpointAlwaysPort(site_url, port) == Str(site_url) \o <<":">> \o Str(port)

\* site_url if port == "80" else f"{site_url}:{port}"
Endpoint(site_url, port) ==
  IF port = <<"8", "0">> THEN site_url
  ELSE Str(site_url) \o <<":">> \o Str(port)

(* ------------------------------------------------------------------ *)
(* The UPDATE statement                                                *)
(* ------------------------------------------------------------------ *)

SyntaxError == [ok |-> FALSE, text |-> <<>>]

\* The text s pasted between two single quotes, as SQLite reads it: a
\* doubled quote is one quote, and a quote that is not doubled ends the
\* literal early, which leaves a statement that does not parse.  (The
\* characters of the model spell no SQL operator or keyword, so the
\* pasted text parses only as one literal.)
RECURSIVE ReadLiteral(_, _, _)
ReadLiteral(s, i, acc) ==
  IF i > Len(s) THEN [ok |-> TRUE, text |-> acc]
  ELSE IF s[i] # QUOTE THEN ReadLiteral(s, i + 1, Append(acc, s[i]))
  ELSE IF i + 1 <= Len(s) /\ s[i + 1] = QUOTE
       THEN ReadLiteral(s, i + 2, Append(acc, QUOTE))
  ELSE SyntaxError

SqlLiteral(s) == ReadLiteral(Str(s), 1, <<>>)

\* UPDATE tilesets_viewconf SET viewconf = replace(viewconf,'{origin}','{destination}')
db_query(orig, dest) ==
  [ ok          |-> SqlLiteral(orig).ok /\ SqlLiteral(dest).ok,
    pattern     |-> SqlLiteral(orig).text,
    replacement |-> SqlLiteral(dest).text ]

\* SQLite's replace(X,Y,Z) from position i on: scan left to right, at a
\* match emit Z and skip the match, otherwise emit the character
RECURSIVE ReplaceFrom(_, _, _, _)
ReplaceFrom(s, i, pat, rep) ==
  IF i > Len(s) - Len(pat) + 1 THEN SubSeq(s, i, Len(s))
  ELSE IF OccursAt(s, pat, i)
       THEN rep \o ReplaceFrom(s, i + Len(pat), pat, rep)
  ELSE <<s[i]>> \o ReplaceFrom(s, i + 1, pat, rep)

\* only the first occurrence is replaced
ReplaceFirstOnly(s, pat, rep) ==
  IF pat = <<>> \/ ~Contains(s, pat) THEN s
  ELSE LET i == CHOOSE k \in 1..Len(s) :
                  /\ OccursAt(s, pat, k)
                  /\ \A j \in 1..(k - 1) : ~OccursAt(s, pat, j)
       IN  SubSeq(s, 1, i - 1) \o rep \o SubSeq(s, i + Len(pat), Len(s))

\* the scan starts at the second character
ReplaceFromSecond(s, pat, rep) ==
  IF pat = <<>> \/ s = <<>> THEN s
  ELSE <<s[1]>> \o ReplaceFrom(s, 2, pat, rep)

\* replace(viewconf, pattern, replacement): an empty pattern changes nothing
Replace(s, pat, rep) ==
  IF pat = <<>> THEN s ELSE ReplaceFrom(s, 1, pat, rep)

(* ------------------------------------------------------------------ *)
(* State                                                               *)
(* ------------------------------------------------------------------ *)

VARIABLES
  pc,              \* the position of the run in update_viewconfs
  args,            \* the command line as given (None: option not given)
  old_site_url,    \* the locals of update_viewconfs
  old_port,
  old_data_dir,
  origin,
  destination,
  origin_db_path,
  update_db_path,
  conn,            \* the path the connection is open on, or None
  cur,             \* the open transaction: the rows as written so far, the next row
  fs,              \* the file system: path -> file
  lookup,          \* how the registry lookup ended
  stderr,          \* what was written to the diagnostic stream
  trace,           \* the calls made, in order
  error,           \* the exception that ended the run, or "none"
  exit_status,     \* the exit status of the process, -1 while it runs
  fs0,             \* the file system when the run started
  pre              \* the rows of the snapshot when the connection was opened

vars ==
  << pc, args, old_site_url, old_port, old_data_dir, origin, destination,
     origin_db_path, update_db_path, conn, cur, fs, lookup, stderr, trace,
     error, exit_status, fs0, pre >>

NoTxn == [rows |-> <<>>, next |-> 0]

\* the files of a data directory before the run: the database, and the
\* snapshot of an earlier run or none
InitialFiles(db, old) ==
  [p \in Paths |->
     IF \E d \in DataDirs : p = origin_db_path_of(d) THEN File(db) ELSE old]

Init ==
  /\ pc = "resolve"
  /\ args \in [ old_hg_name  : HgNames,
                old_site_url : OldSiteUrls,
                old_port     : Ports,
                old_data_dir : OldDataDirs,
                new_site_url : NewSiteUrls,
                new_port     : Ports ]
  /\ old_site_url = args.old_site_url
  /\ old_port = ClickOption(args.old_port, DefaultPort)
  /\ old_data_dir = args.old_data_dir
  /\ origin = None
  /\ destination = None
  /\ origin_db_path = None
  /\ update_db_path = None
  /\ conn = None
  /\ cur = NoTxn
  /\ \E db \in Databases, old \in {NoFile, StaleSnapshot} :
       fs = InitialFiles(db, old)
  /\ lookup = "none"
  /\ stderr = <<>>
  /\ trace = <<>>
  /\ error = "none"
  /\ exit_status = -1
  /\ fs0 = fs
  /\ pre = <<>>

new_site_url == args.new_site_url

new_port == ClickOption(args.new_port, DefaultPort)

\* an uncaught exception ends the run: traceback, exit status 1
Raise(exception) ==
  /\ pc' = "failed"
  /\ error' = exception
  /\ exit_status' = 1

(* ------------------------------------------------------------------ *)
(* Resolution                                                          *)
(* ------------------------------------------------------------------ *)

\* lines 116-127: origin, destination and the two paths, from the locals
Locate(site_url, port, data_dir) ==
  /\ origin' = Endpoint(site_url, port)
  /\ destination' = Endpoint(new_site_url, new_port)
  /\ origin_db_path' = origin_db_path_of(data_dir)
  /\ update_db_path' = update_db_path_of(data_dir)

\* --old-hg-name given and the deployment is running: the registry answers
ResolveFromRegistry ==
  /\ pc = "resolve"
  /\ args.old_hg_name # None
  /\ \E d \in Registry :
       /\ old_site_url' = d.site_url
       /\ old_port' = d.port
       /\ old_data_dir' = d.data_dir
       /\ Locate(d.site_url, d.port, d.data_dir)
  /\ lookup' = "found"
  /\ trace' = Append(trace, "lookup")
  /\ pc' = "stop"
  /\ UNCHANGED <<args, conn, cur, fs, stderr, error, exit_status, fs0, pre>>

\* --old-hg-name given and get_site_url raises docker.errors.NotFound: the
\* except clause names docker, which the module does not import, so
\* evaluating it raises NameError; were it imported, the handler would
\* write the diagnostic and go on with the values of the command line
\* (os.path.join of None raises TypeError)
ResolveNotFound ==
  /\ pc = "resolve"
  /\ args.old_hg_name # None
  /\ lookup' = "notfound"
  /\ trace' = Append(trace, "lookup")
  /\ IF "docker" \notin ModuleImports
     THEN /\ Raise("NameError")
          /\ UNCHANGED <<origin, destination, origin_db_path, update_db_path,
                         stderr>>
     ELSE /\ stderr' = Append(stderr, "Instance not running")
          /\ IF old_data_dir = None
             THEN /\ Raise("TypeError")
                  /\ origin' = Endpoint(old_site_url, old_port)
                  /\ destination' = Endpoint(new_site_url, new_port)
                  /\ UNCHANGED <<origin_db_path, update_db_path>>
             ELSE /\ Locate(old_site_url, old_port, old_data_dir)
                  /\ pc' = "stop"
                  /\ UNCHANGED <<error, exit_status>>
  /\ UNCHANGED <<args, old_site_url, old_port, old_data_dir, conn, cur, fs,
                 fs0, pre>>

\* no --old-hg-name, and --old-site-url or --old-data-dir is missing
ResolveValueError ==
  /\ pc = "resolve"
  /\ args.old_hg_name = None
  /\ (old_site_url = None) \/ (old_data_dir = None)
  /\ Raise("ValueError")
  /\ UNCHANGED <<args, old_site_url, old_port, old_data_dir, origin,
                 destination, origin_db_path, update_db_path, conn, cur, fs,
                 lookup, stderr, trace, fs0, pre>>

\* no --old-hg-name, --old-site-url and --old-data-dir given
ResolveExplicit ==
  /\ pc = "resolve"
  /\ args.old_hg_name = None
  /\ ~((old_site_url = None) \/ (old_data_dir = None))
  /\ Locate(old_site_url, old_port, old_data_dir)
  /\ pc' = "stop"
  /\ UNCHANGED <<args, old_site_url, old_port, old_data_dir, conn, cur, fs,
                 lookup, stderr, trace, error, exit_status, fs0, pre>>

(* ------------------------------------------------------------------ *)
(* Stop                                                                *)
(* ------------------------------------------------------------------ *)

\* the deployment is never stopped
ShouldStopNever(old_hg_name) == FALSE

\* the test is inverted
ShouldStopInverted(old_hg_name) == old_hg_name = None

\* if old_hg_name is not None
ShouldStop(old_hg_name) == old_hg_name # None

\* _stop([old_hg_name,], False, False, False) is called
StopCall ==
  /\ pc = "stop"
  /\ ShouldStop(args.old_hg_name)
  /\ trace' = Append(trace, "stop_call")
  /\ pc' = "in_stop"
  /\ UNCHANGED <<args, old_site_url, old_port, old_data_dir, origin,
                 destination, origin_db_path, update_db_path, conn, cur, fs,
                 lookup, stderr, error, exit_status, fs0, pre>>

\* _stop returns
StopReturn ==
  /\ pc = "in_stop"
  /\ trace' = Append(trace, "stop_return")
  /\ pc' = "backup"
  /\ UNCHANGED <<args, old_site_url, old_port, old_data_dir, origin,
                 destination, origin_db_path, update_db_path, conn, cur, fs,
                 lookup, stderr, error, exit_status, fs0, pre>>

\* no deployment name: nothing is stopped
SkipStop ==
  /\ pc = "stop"
  /\ ~ShouldStop(args.old_hg_name)
  /\ pc' = "backup"
  /\ UNCHANGED <<args, old_site_url, old_port, old_data_dir, origin,
                 destination, origin_db_path, update_db_path, conn, cur, fs,
                 lookup, stderr, trace, error, exit_status, fs0, pre>>

(* ------------------------------------------------------------------ *)
(* Backup                                                              *)
(* ------------------------------------------------------------------ *)

\* sqlite3 <src> ".backup <dst>", exit status 0: dst holds the rows of src
sqlite3_backup(files, src, dst) == [files EXCEPT ![dst] = files[src]]

\* an existing dst is kept
copyfile_keep(files, src, dst) ==
  IF files[dst].exists THEN files ELSE [files EXCEPT ![dst] = files[src]]

\* shutil.copyfile(src, dst): dst is created or overwritten with src
copyfile(files, src, dst) == [files EXCEPT ![dst] = files[src]]

\* the exit status is not looked at
BackupFailedNever(returncode) == FALSE

\* res.returncode != 0
BackupFailed(returncode) == returncode # 0

\* sp.run starts sqlite3, which returns an exit status; on a failure the
\* snapshot is as it was or was left empty by the tool
BackupRuns ==
  /\ pc = "backup"
  /\ \E returncode \in {0, 1} :
       /\ trace' = trace \o <<"sp.run", IF returncode = 0
                                          THEN "returned_zero"
                                          ELSE "returned_nonzero">>
       /\ IF BackupFailed(returncode)
          THEN /\ \E left \in {fs[update_db_path], File(<<>>)} :
                    fs' = [fs EXCEPT ![update_db_path] = left]
               /\ Raise("RuntimeError")
          ELSE /\ fs' = sqlite3_backup(fs, origin_db_path, update_db_path)
               /\ pc' = "connect"
               /\ UNCHANGED <<error, exit_status>>
  /\ UNCHANGED <<args, old_site_url, old_port, old_data_dir, origin,
                 destination, origin_db_path, update_db_path, conn, cur,
                 lookup, stderr, fs0, pre>>

\* sp.run raises OSError (sqlite3 is not installed): warn, copy the file
BackupToolMissing ==
  /\ pc = "backup"
  /\ stderr' = Append(stderr, "sqlite3 is not installed")
  /\ fs' = copyfile(fs, origin_db_path, update_db_path)
  /\ trace' = trace \o <<"sp.run", "copyfile">>
  /\ pc' = "connect"
  /\ UNCHANGED <<args, old_site_url, old_port, old_data_dir, origin,
                 destination, origin_db_path, update_db_path, conn, cur,
                 lookup, error, exit_status, fs0, pre>>

(* ------------------------------------------------------------------ *)
(* Connection                                                          *)
(* ------------------------------------------------------------------ *)

\* the connection is opened on the original database
ConnectPathToOrigin(origin_path, update_path) == origin_path

\* the path sqlite3.connect is given
ConnectPath(origin_path, update_path) == update_path

\* conn = sqlite3.connect(update_db_path)
ConnectOk ==
  /\ pc = "connect"
  /\ conn' = ConnectPath(origin_db_path, update_db_path)
  /\ pre' = fs[conn'].rows
  /\ trace' = Append(trace, "connect")
  /\ pc' = "execute"
  /\ UNCHANGED <<args, old_site_url, old_port, old_data_dir, origin,
                 destination, origin_db_path, update_db_path, cur, fs, lookup,
                 stderr, error, exit_status, fs0>>

\* sqlite3.connect raises sqlite3.Error: diagnostic, sys.exit(-1)
ConnectFails ==
  /\ pc = "connect"
  /\ stderr' = Append(stderr, "Failed to connect")
  /\ trace' = Append(trace, "connect")
  /\ pc' = "failed"
  /\ error' = "SystemExit"
  /\ exit_status' = 255
  /\ UNCHANGED <<args, old_site_url, old_port, old_data_dir, origin,
                 destination, origin_db_path, update_db_path, conn, cur, fs,
                 lookup, fs0, pre>>

(* ------------------------------------------------------------------ *)
(* Rewrite                                                             *)
(* ------------------------------------------------------------------ *)

\* what was written is kept whether or not the body raised
with_conn_exit_keep(committed, written, raised) == written

\* the exit of "with conn:": commit, or roll back when the body raised
with_conn_exit(committed, written, raised) ==
  IF raised THEN committed ELSE written

\* cur.execute(db_query): the statement does not parse
ExecuteSyntaxError ==
  /\ pc = "execute"
  /\ ~db_query(origin, destination).ok
  /\ fs' = [fs EXCEPT ![conn].rows = with_conn_exit(@, @, TRUE)]
  /\ trace' = Append(trace, "execute")
  /\ Raise("sqlite3.OperationalError")
  /\ UNCHANGED <<args, old_site_url, old_port, old_data_dir, origin,
                 destination, origin_db_path, update_db_path, conn, cur,
                 lookup, stderr, fs0, pre>>

\* cur.execute(db_query): the statement parses, the transaction begins
ExecuteBegin ==
  /\ pc = "execute"
  /\ db_query(origin, destination).ok
  /\ cur' = [rows |-> fs[conn].rows, next |-> 1]
  /\ trace' = Append(trace, "execute")
  /\ pc' = "update"
  /\ UNCHANGED <<args, old_site_url, old_port, old_data_dir, origin,
                 destination, origin_db_path, update_db_path, conn, fs, lookup,
                 stderr, error, exit_status, fs0, pre>>

\* the UPDATE writes the next row
UpdateRow ==
  /\ pc = "update"
  /\ cur.next <= Len(cur.rows)
  /\ LET q == db_query(origin, destination)
     IN  cur' = [ rows |-> [cur.rows EXCEPT ![cur.next] =
                              Replace(@, q.pattern, q.replacement)],
                  next |-> cur.next + 1 ]
  /\ UNCHANGED <<pc, args, old_site_url, old_port, old_data_dir, origin,
                 destination, origin_db_path, update_db_path, conn, fs, lookup,
                 stderr, trace, error, exit_status, fs0, pre>>

\* the UPDATE fails part way (a write error): the with block rolls back
UpdateFails ==
  /\ pc = "update"
  /\ fs' = [fs EXCEPT ![conn].rows = with_conn_exit(@, cur.rows, TRUE)]
  /\ Raise("sqlite3.Error")
  /\ UNCHANGED <<args, old_site_url, old_port, old_data_dir, origin,
                 destination, origin_db_path, update_db_path, conn, cur,
                 lookup, stderr, trace, fs0, pre>>

\* the UPDATE has written every row: the with block commits, conn.close()
Commit ==
  /\ pc = "update"
  /\ cur.next > Len(cur.rows)
  /\ fs' = [fs EXCEPT ![conn].rows = with_conn_exit(@, cur.rows, FALSE)]
  /\ cur' = NoTxn
  /\ conn' = None
  /\ trace' = trace \o <<"commit", "close">>
  /\ pc' = "report"
  /\ UNCHANGED <<args, old_site_url, old_port, old_data_dir, origin,
                 destination, origin_db_path, update_db_path, lookup, stderr,
                 error, exit_status, fs0, pre>>

(* ------------------------------------------------------------------ *)
(* Report                                                              *)
(* ------------------------------------------------------------------ *)

\* "... has been updated and ready for migration ...", and the run ends
Report ==
  /\ pc = "report"
  /\ stderr' = Append(stderr, "has been updated")
  /\ trace' = Append(trace, "report")
  /\ pc' = "done"
  /\ exit_status' = 0
  /\ UNCHANGED <<args, old_site_url, old_port, old_data_dir, origin,
                 destination, origin_db_path, update_db_path, conn, cur, fs,
                 lookup, error, fs0, pre>>

Next ==
  \/ ResolveFromRegistry
  \/ ResolveNotFound
  \/ ResolveValueError
  \/ ResolveExplicit
  \/ StopCall
  \/ StopReturn
  \/ SkipStop
  \/ BackupRuns
  \/ BackupToolMissing
  \/ ConnectOk
  \/ ConnectFails
  \/ ExecuteSyntaxError
  \/ ExecuteBegin
  \/ UpdateRow
  \/ UpdateFails
  \/ Commit
  \/ Report

Spec == Init /\ [][Next]_vars

(* ------------------------------------------------------------------ *)
(* Vocabulary of the properties                                        *)
(* ------------------------------------------------------------------ *)

InTrace(e) == \E i \in DOMAIN trace : trace[i] = e

InStderr(m) == \E i \in DOMAIN stderr : stderr[i] = m

\* every e2 in the trace has an e1 somewhere before it
Precedes(e1, e2) ==
  \A j \in DOMAIN trace :
    trace[j] = e2 => \E i \in 1..(j - 1) : trace[i] = e1

Port80 == <<"8", "0">>

Colon80 == <<":", "8", "0">>

\* the rows of the snapshot as they are committed now
Snapshot == fs[update_db_path].rows

\* the pattern and the replacement as SQLite reads them from the statement
Pattern == db_query(origin, destination).pattern

Replacement == db_query(origin, destination).replacement

\* The leftmost non-overlapping occurrences of pat in s, as a set of
\* positions: a position is in the set exactly when pat occurs there and
\* no occurrence of the set that starts earlier covers it.
MatchStarts(s, pat) ==
  CHOOSE S \in SUBSET (1..Len(s)) :
    \A i \in 1..Len(s) :
      i \in S <=> /\ OccursAt(s, pat, i)
                  /\ \A j \in S : ~(j < i /\ i < j + Len(pat))

RECURSIVE Concat(_, _)
Concat(piece, n) == IF n = 0 THEN <<>> ELSE Concat(piece, n - 1) \o piece[n]

\* s with each of these occurrences of pat replaced by rep, stated
\* position by position: an occurrence gives rep, a character covered by
\* an occurrence gives nothing, every other character gives itself
Substituted(s, pat, rep) ==
  IF pat = <<>> THEN s
  ELSE LET S == MatchStarts(s, pat)
           piece == [i \in 1..Len(s) |->
                       IF i \in S THEN rep
                       ELSE IF \E j \in S : j < i /\ i < j + Len(pat)
                            THEN <<>>
                       ELSE <<s[i]>>]
       IN  Concat(piece, Len(s))

Rewritten == pc \in {"report", "done"}

(* ------------------------------------------------------------------ *)
(* C1                                                                  *)
(* ------------------------------------------------------------------ *)

\* C1: at every point of every run, however it ends, every file other than
\* the snapshot <old_data_dir>/db.sqlite3.updated is as it was when the run
\* started; in particular the original database is.
C1_NonDestruction ==
  /\ \A p \in Paths : fs[p] # fs0[p] => p = update_db_path
  /\ \A d \in DataDirs : fs[origin_db_path_of(d)] = fs0[origin_db_path_of(d)]

\* a run that ended with the report and whose rewrite changed the snapshot
C1_Witness ==
  /\ pc = "done"
  /\ Snapshot # fs[origin_db_path].rows
  /\ fs[origin_db_path] = fs0[origin_db_path]

(* ------------------------------------------------------------------ *)
(* C2                                                                  *)
(* ------------------------------------------------------------------ *)

\* C2: in a run with a deployment name whose lookup succeeded, the backup
\* (sp.run, or the file copy) starts only after _stop was called and has
\* returned, and never while _stop is running.
C2_StopBeforeBackup ==
  (args.old_hg_name # None /\ lookup = "found") =>
    /\ Precedes("stop_call", "stop_return")
    /\ Precedes("stop_return", "sp.run")
    /\ Precedes("stop_return", "copyfile")
    /\ pc \in {"stop", "in_stop"} => ~InTrace("sp.run") /\ ~InTrace("copyfile")
    /\ pc \in {"backup", "connect", "execute", "update", "report", "done"}
         => InTrace("stop_return")

\* the backup has started in a run that resolved a running deployment
C2_Witness ==
  /\ args.old_hg_name # None
  /\ lookup = "found"
  /\ InTrace("stop_return")
  /\ InTrace("sp.run")

(* ------------------------------------------------------------------ *)
(* C3                                                                  *)
(* ------------------------------------------------------------------ *)

\* C3: a fatal error ends the run: (i) without a deployment name and
\* without old-site-url or old-data-dir nothing is stopped, backed up or
\* written; (ii) after a non-zero exit status of the backup tool the
\* snapshot is neither opened nor rewritten; (iii) after a failed
\* connection the UPDATE is not executed and the status is non-zero; the
\* report is written only after the commit; a failed run takes no further
\* step.
C3_FailFast ==
  /\ (args.old_hg_name = None
        /\ (args.old_site_url = None \/ args.old_data_dir = None))
       => /\ trace = <<>>
          /\ stderr = <<>>
          /\ fs = fs0
          /\ pc \in {"resolve", "failed"}
          /\ pc = "failed" => error = "ValueError"
  /\ InTrace("returned_nonzero")
       => /\ pc = "failed"
          /\ error = "RuntimeError"
          /\ ~InTrace("connect")
          /\ ~InTrace("execute")
          /\ ~InTrace("commit")
  /\ InStderr("Failed to connect")
       => /\ pc = "failed"
          /\ error = "SystemExit"
          /\ exit_status \notin {0, -1}
          /\ ~InTrace("execute")
          /\ ~InTrace("commit")
  /\ InStderr("has been updated")
       => /\ InTrace("commit")
          /\ error = "none"
  /\ pc = "failed"
       => /\ error # "none"
          /\ exit_status \notin {0, -1}
          /\ ~InStderr("has been updated")
          /\ ~ENABLED Next

\* the backup tool exited with a non-zero status and the run ended there
C3_Witness ==
  /\ pc = "failed"
  /\ error = "RuntimeError"
  /\ InTrace("returned_nonzero")

(* ------------------------------------------------------------------ *)
(* C4                                                                  *)
(* ------------------------------------------------------------------ *)

\* C4 as claimed: after a committed rewrite the rows that changed are
\* exactly the rows that contained the origin, each is its old text with
\* every occurrence of the origin replaced by the destination, and the
\* other rows are as they were.
C4_AsClaimed ==
  Rewritten =>
    /\ Len(Snapshot) = Len(pre)
    /\ \A i \in 1..Len(pre) :
         /\ Snapshot[i] # pre[i] <=> Contains(pre[i], origin)
         /\ Snapshot[i] = Substituted(pre[i], origin, destination)

\* C4 amended: after a committed rewrite every row is its old text with
\* every occurrence (leftmost first, not overlapping) of the origin
\* replaced by the destination, both as SQLite reads them from the quoted
\* text of the statement; a row that does not contain the origin is as it
\* was; a row that contains it has changed exactly when the origin is not
\* empty and differs from the destination.
C4_Substitution ==
  Rewritten =>
    /\ Len(Snapshot) = Len(pre)
    /\ \A i \in 1..Len(pre) :
         /\ Snapshot[i] = Substituted(pre[i], Pattern, Replacement)
         /\ ~Contains(pre[i], Pattern) => Snapshot[i] = pre[i]
         /\ Snapshot[i] # pre[i] <=>
              /\ Contains(pre[i], Pattern)
              /\ Pattern # <<>>
              /\ Pattern # Replacement
    /\ (~Contains(origin, <<QUOTE>>) /\ ~Contains(destination, <<QUOTE>>))
         => Pattern = origin /\ Replacement = destination

\* a committed rewrite that changed one row and left another as it was
C4_Witness ==
  /\ pc = "done"
  /\ Pattern = origin
  /\ \E i, j \in 1..Len(pre) :
       /\ Contains(pre[i], origin)
       /\ Snapshot[i] # pre[i]
       /\ ~Contains(pre[j], origin)
       /\ Snapshot[j] = pre[j]

(* ------------------------------------------------------------------ *)
(* C5                                                                  *)
(* ------------------------------------------------------------------ *)

Resolved == pc \notin {"resolve"} /\ origin # None

\* C6 as claimed: origin and destination follow the one rule, with port
\* "80" given or left out the endpoint is the url, and no endpoint ends
\* in ":80".
C6_AsClaimed ==
  Resolved =>
    /\ old_port = Port80 => origin = old_site_url
    /\ args.new_port \in {None, Port80} => destination = args.new_site_url
    /\ ~EndsWith(origin, Colon80)
    /\ ~EndsWith(destination, Colon80)

\* C6 amended: origin and destination follow the one rule: with port "80",
\* given or left out, the endpoint is the url as given, and otherwise it
\* is url:port; so an endpoint ends in ":80" only when the url given ends
\* in ":80" and the port is "80", or when the port itself ends in ":80".
C6_Canonical ==
  Resolved =>
    /\ old_port = Port80 => origin = old_site_url
    /\ old_port # Port80 => origin = old_site_url \o <<":">> \o old_port
    /\ (args.old_hg_name = None /\ args.old_port \in {None, Port80})
         => origin = args.old_site_url
    /\ args.new_port \in {None, Port80} => destination = args.new_site_url
    /\ args.new_port \notin {None, Port80}
         => destination = args.new_site_url \o <<":">> \o args.new_port
    /\ EndsWith(origin, Colon80)
         => \/ old_port = Port80 /\ EndsWith(old_site_url, Colon80)
            \/ old_port # Port80 /\ EndsWith(old_port, Colon80)
    /\ EndsWith(destination, Colon80)
         => \/ new_port = Port80 /\ EndsWith(new_site_url, Colon80)
            \/ new_port # Port80 /\ EndsWith(new_port, Colon80)

\* the port left out on one side and given as another port on the other
C6_Witness ==
  /\ Resolved
  /\ args.old_hg_name = None
  /\ args.old_port = None
  /\ origin = args.old_site_url
  /\ ~EndsWith(origin, Colon80)
  /\ args.new_port \notin {None, Port80}
  /\ destination # args.new_site_url

(* ------------------------------------------------------------------ *)
(* C7                                                                  *)
(* ------------------------------------------------------------------ *)

\* the rows the snapshot had when it was opened, each rewritten
AllRewritten ==
  [i \in 1..Len(pre) |-> Substituted(pre[i], Pattern, Replacement)]

\* C7: from the opening of the snapshot on, its committed rows are the
\* rows it had when it was opened until the commit, and all of them
\* rewritten after it; a rewrite that failed after it had started leaves
\* the rows it had when it was opened.
C7_Atomic ==
  InTrace("execute") =>
    /\ ~InTrace("commit") => Snapshot = pre
    /\ InTrace("commit") => Snapshot = AllRewritten
    /\ (pc = "failed" /\ error \in {"sqlite3.Error", "sqlite3.OperationalError"})
         => Snapshot = pre /\ ~InTrace("commit")

\* the UPDATE failed after it had rewritten a row to a different text
C7_Witness ==
  /\ pc = "failed"
  /\ error = "sqlite3.Error"
  /\ cur.next > 1
  /\ cur.rows # pre
  /\ Snapshot = pre

(* ------------------------------------------------------------------ *)
(* C8                                                                  *)
(* ------------------------------------------------------------------ *)

\* C8: when a deployment name is given, the lookup fails, and old-site-url
\* and old-data-dir are given on the command line, the failure is written
\* to the diagnostic stream and the run goes on to the backup: it does not
\* end at the resolution.
C8_LookupFailureNonFatal ==
  (lookup = "notfound"
     /\ args.old_site_url # None
     /\ args.old_data_dir # None)
    => /\ InStderr("Instance not running")
       /\ pc # "failed"
       /\ error = "none"

(* ------------------------------------------------------------------ *)
(* C9                                                                  *)
(* ------------------------------------------------------------------ *)

\* C9: when sqlite3 cannot be started the run does not end at the backup:
\* the warning is written, the database is copied over whatever was at
\* the snapshot path, and the run goes on; until the rewrite starts the
\* snapshot is the file the original database is, and the rewrite starts
\* from its rows.
C9_RawCopyFallback ==
  InTrace("copyfile") =>
    /\ InStderr("sqlite3 is not installed")
    /\ pc \in {"connect", "execute", "update", "report", "done", "failed"}
    /\ pc = "failed"
         => error \in {"SystemExit", "sqlite3.Error", "sqlite3.OperationalError"}
    /\ pc \in {"connect", "execute"} => fs[update_db_path] = fs[origin_db_path]
    /\ InTrace("execute") => pre = fs0[origin_db_path].rows

\* the rewrite is about to start on a copy that replaced an older snapshot
C9_Witness ==
  /\ InTrace("copyfile")
  /\ pc = "execute"
  /\ fs0[update_db_path] = StaleSnapshot
  /\ fs[update_db_path] # StaleSnapshot
  /\ fs[update_db_path] = fs[origin_db_path]

(* ------------------------------------------------------------------ *)
(* C10                                                                 *)
(* ------------------------------------------------------------------ *)

\* C10 as claimed: whenever the database was copied as a file, _stop was
\* called earlier in the run.
C10_AsClaimed == InTrace("copyfile") => InTrace("stop_call")

\* C10 amended: the file copy comes after a call of _stop that has
\* returned exactly in the runs that were given a deployment name; a run
\* given old-site-url and old-data-dir without a name copies the file
\* and stops nothing.
C10_CopyAfterStop ==
  InTrace("copyfile") =>
    /\ args.old_hg_name # None
         => /\ Precedes("stop_call", "copyfile")
            /\ Precedes("stop_return", "copyfile")
    /\ args.old_hg_name = None
         => ~InTrace("stop_call") /\ ~InTrace("stop_return")

\* the file was copied in a run that was given a deployment name
C10_Witness ==
  /\ InTrace("copyfile")
  /\ args.old_hg_name # None
  /\ InTrace("stop_return")

====
